---------------------------- MODULE Spec2Model ----------------------------
(***************************************************************************)
(* A model of passgen (src/passgen.c): the command-line scan of main, the  *)
(* construction of the alphabet buffer, the password assembly loop, the    *)
(* clean-up, and randInt's rejection sampling over getrandom.              *)
(*                                                                         *)
(* Machine words are WordBits wide instead of 64: size_t ranges over       *)
(* 0..MAX and long over LONG_MIN..LONG_MAX, with the same wrap-around.     *)
(* Characters are one-character strings, NUL is the string "NUL", the      *)
(* grave accent is the string "GRAVE", and a C string is the sequence of   *)
(* its characters without the terminator.                                  *)
(***************************************************************************)
EXTENDS Integers, Sequences, FiniteSets, TLC

\* ------------------------------------------------------------- bounds

\* width of size_t and long in bits (64 in the build)
WordBits == 8
\* extent of the heap in bytes: the largest request calloc can satisfy and
\* the farthest offset past a block at which a stray write can still land
HeapMax == 100
\* largest limit randInt is called with when it is checked on its own
\* (94 is the length of the largest alphabet)
MaxLimit == 94
\* most arguments that follow the class flags on a command line
MaxTail == 2

\* ------------------------------------------------------ machine words

WORD == 2 ^ WordBits
\* static size_t const MAX = ~0
MAX == WORD - 1
LONG_MAX == 2 ^ (WordBits - 1) - 1
LONG_MIN == 0 - 2 ^ (WordBits - 1)
\* conversion of a long to size_t
ToSizeT(v) == v % WORD

NUL == "NUL"

\* -------------------------------------------------- character classes

LOWERS ==
  << "a","b","c","d","e","f","g","h","i","j","k","l","m",
     "n","o","p","q","r","s","t","u","v","w","x","y","z" >>
LOWERS_LEN == 26
UPPERS ==
  << "A","B","C","D","E","F","G","H","I","J","K","L","M",
     "N","O","P","Q","R","S","T","U","V","W","X","Y","Z" >>
UPPERS_LEN == 26
NUMBERS == << "0","1","2","3","4","5","6","7","8","9" >>
NUMBERS_LEN == 10
SYMBOLS ==
  << "!","\"","#","$","%","&","'","(",")","*","+",",","-",".","/",":",
     ";","<","=",">","?","@","[","\\","]","^","_","GRAVE","{","|","}","~" >>
SYMBOLS_LEN == 32
PASS_LEN_DEFAULT == 22

Range(s) == { s[k] : k \in 1..Len(s) }

\* ------------------------------------------------------ option parsing

\* arg[k] of a C string, k counted from 0; the byte after the last is NUL
At(arg, k) == IF k < Len(arg) THEN arg[k + 1] ELSE NUL

parseLongOption(arg) ==
  IF arg = <<"-","-","h","e","l","p">> THEN "OPTION_HELP"
  ELSE IF arg = <<"-","-","e","n","a","b","l","e","-","l","o","w","e","r">>
    THEN "OPTION_LOWER_ENABLE"
  ELSE IF arg = <<"-","-","e","n","a","b","l","e","-","u","p","p","e","r">>
    THEN "OPTION_UPPER_ENABLE"
  ELSE IF arg = <<"-","-","e","n","a","b","l","e","-","n","u","m","b","e","r">>
    THEN "OPTION_NUMBER_ENABLE"
  ELSE IF arg = <<"-","-","e","n","a","b","l","e","-","s","y","m","b","o","l">>
    THEN "OPTION_SYMBOL_ENABLE"
  ELSE IF arg = <<"-","-","d","i","s","a","b","l","e","-","l","o","w","e","r">>
    THEN "OPTION_LOWER_DISABLE"
  ELSE IF arg = <<"-","-","d","i","s","a","b","l","e","-","u","p","p","e","r">>
    THEN "OPTION_UPPER_DISABLE"
  ELSE IF arg = <<"-","-","d","i","s","a","b","l","e","-","n","u","m","b","e","r">>
    THEN "OPTION_NUMBER_DISABLE"
  ELSE IF arg = <<"-","-","d","i","s","a","b","l","e","-","s","y","m","b","o","l">>
    THEN "OPTION_SYMBOL_DISABLE"
  ELSE "OPTION_UNRECOGNIZED"

parseOption(arg) ==
  IF At(arg, 0) = "+" THEN
    IF At(arg, 1) = "l" /\ At(arg, 2) = NUL THEN "OPTION_LOWER_ENABLE"
    ELSE IF At(arg, 1) = "u" /\ At(arg, 2) = NUL THEN "OPTION_UPPER_ENABLE"
    ELSE IF At(arg, 1) = "n" /\ At(arg, 2) = NUL THEN "OPTION_NUMBER_ENABLE"
    ELSE IF At(arg, 1) = "s" /\ At(arg, 2) = NUL THEN "OPTION_SYMBOL_ENABLE"
    ELSE "OPTION_UNRECOGNIZED"
  ELSE IF At(arg, 0) = "-" THEN
    IF At(arg, 1) = "-" THEN parseLongOption(arg)
    ELSE IF At(arg, 1) = "l" /\ At(arg, 2) = NUL THEN "OPTION_LOWER_DISABLE"
    ELSE IF At(arg, 1) = "u" /\ At(arg, 2) = NUL THEN "OPTION_UPPER_DISABLE"
    ELSE IF At(arg, 1) = "n" /\ At(arg, 2) = NUL THEN "OPTION_NUMBER_DISABLE"
    ELSE IF At(arg, 1) = "s" /\ At(arg, 2) = NUL THEN "OPTION_SYMBOL_DISABLE"
    ELSE "OPTION_UNRECOGNIZED"
  ELSE "OPTION_UNRECOGNIZED"

\* ------------------------------------------------------------- strtol

IsSpace(c) == c \in {" ", "\t", "\n", "\r", "\f"}
IsDigit(c) == c \in Range(NUMBERS)
DigitVal(c) == (CHOOSE k \in 1..10 : NUMBERS[k] = c) - 1

RECURSIVE SkipSpace(_, _)
SkipSpace(s, k) == IF IsSpace(At(s, k)) THEN SkipSpace(s, k + 1) ELSE k

\* The digits from position k on, accumulated in base 10 towards the bound
\* `most` (LONG_MAX, or -LONG_MIN after a minus sign); over is set once the
\* magnitude passes it.
RECURSIVE Digits(_, _, _, _, _)
Digits(s, k, acc, over, most) ==
  IF ~IsDigit(At(s, k)) THEN [mag |-> acc, over |-> over, end |-> k]
  ELSE LET v == acc * 10 + DigitVal(At(s, k))
       IN  IF over \/ v > most
             THEN Digits(s, k + 1, most, TRUE, most)
             ELSE Digits(s, k + 1, v, FALSE, most)

\* strtol(s, NULL, 10): the value, whether any digit was converted, and
\* whether the value was out of range (ERANGE, the value clamped).
strtol(s) ==
  LET k0   == SkipSpace(s, 0)
      neg  == At(s, k0) = "-"
      k1   == IF At(s, k0) \in {"+", "-"} THEN k0 + 1 ELSE k0
      most == IF neg THEN 0 - LONG_MIN ELSE LONG_MAX
      d    == Digits(s, k1, 0, FALSE, most)
  IN  [ val    |-> IF neg THEN 0 - d.mag ELSE d.mag,
        conv   |-> d.end > k1,
        erange |-> d.over ]

\* ------------------------------------------------------ entropy source

\* One result of getrandom(&buf, sizeof (buf), 0): a full word, a short read
\* (fewer bytes than asked, errno untouched), or -1 with errno set.
Full(w) == [kind |-> "full", word |-> w, err |-> "0"]
Short == [kind |-> "short", word |-> 0, err |-> "0"]
Fail(e) == [kind |-> "fail", word |-> 0, err |-> e]

\* errno values getrandom sets: an interrupted call, which a caller may
\* simply repeat, and a source that is not there at all.
TransientErrors == {"EINTR"}
HardErrors == {"ENOSYS"}
GetrandomErrors == TransientErrors \cup HardErrors

AllResults ==
  { Full(w) : w \in 0..MAX } \cup {Short} \cup { Fail(e) : e \in GetrandomErrors }

\* A scripted source for whole runs, replayed cyclically: accepted words,
\* words in the rejected tail, and a short read.
GoodDraws ==
  << Full(0), Full(61), Full(MAX), Full(200), Short, Full(7), Full(93),
     Full(MAX - 1), Full(25) >>

\* the source that fails with e at its (k+1)-th call
FailingAfter(k, e) ==
  [ j \in 1..k |-> GoodDraws[((j - 1) % Len(GoodDraws)) + 1] ] \o << Fail(e) >>

\* the draws after which a failing source fails: at once, at each of the
\* first positions, and late in a password of the default length
FailPoints == {0, 1, 2, 3, 31}

Scripts ==
  {GoodDraws} \cup { FailingAfter(k, e) : k \in FailPoints, e \in GetrandomErrors }

\* ------------------------------------------------------- command lines

Tok_help == <<"-","-","h","e","l","p">>
Tok_foo == <<"-","-","f","o","o">>
Tok_abc == <<"a","b","c">>

\* the class selections, each as the flags that produce it from the defaults
FlagPrefixes ==
  { l \o u \o n \o s :
      l \in {<<>>, << <<"-","l">> >>},
      u \in {<<>>, << <<"-","u">> >>},
      n \in {<<>>, << <<"-","n">> >>},
      s \in {<<>>, << <<"+","s">> >>} }

TailTokens ==
  { Tok_help, Tok_foo, Tok_abc,
    <<"3">>, <<"0">>, <<"2","x">>, <<"-","1">>, <<"9","9","9">>, <<"1","2","0">>,
    <<"+","l">>, <<"-","s">> }

OptionTokens ==
  { <<"+","l">>, <<"+","u">>, <<"+","n">>, <<"+","s">>,
    <<"-","l">>, <<"-","u">>, <<"-","n">>, <<"-","s">>,
    <<"-","-","e","n","a","b","l","e","-","l","o","w","e","r">>,
    <<"-","-","e","n","a","b","l","e","-","u","p","p","e","r">>,
    <<"-","-","e","n","a","b","l","e","-","n","u","m","b","e","r">>,
    <<"-","-","e","n","a","b","l","e","-","s","y","m","b","o","l">>,
    <<"-","-","d","i","s","a","b","l","e","-","l","o","w","e","r">>,
    <<"-","-","d","i","s","a","b","l","e","-","u","p","p","e","r">>,
    <<"-","-","d","i","s","a","b","l","e","-","n","u","m","b","e","r">>,
    <<"-","-","d","i","s","a","b","l","e","-","s","y","m","b","o","l">>,
    <<"-","5">>, <<"+","4">>, <<" ","6">> }

SeqsUpTo(S, n) == UNION { [1..k -> S] : k \in 0..n }

\* argv[1..argc-1]: a class selection followed by at most one more argument,
\* up to MaxTail arguments without one, and every option spelling on its own
Argvs ==
  { f \o t : f \in FlagPrefixes, t \in SeqsUpTo(TailTokens, 1) }
    \cup SeqsUpTo(TailTokens, MaxTail)
    \cup { <<t>> : t \in OptionTokens }

\* ---------------------------------------------------------------- state

VARIABLES
  argv,            \* argv[1..argc-1]
  source,          \* the entropy source: a script, or <<>> for any result
  srcPos,          \* position of the next result in the script
  pc,              \* position in main / randInt
  status,          \* "running", "exit 0" or "killed"
  i,               \* the loop counter of the loop being run
  enableLower, enableUpper, enableNumber, enableSymbol,
  passLen,
  errno,
  passCharsLen,
  passChars,       \* the alphabet buffer, bytes 0..passCharsLen-1
  passCharsState,  \* "none", "allocated", "freed"
  pastEnd,         \* the byte that follows the alphabet buffer
  written,         \* offsets from passChars that the strcpy calls wrote
  password,        \* the password buffer, bytes 0..passLen
  passwordState,   \* "none", "allocated", "freed"
  passwordFrees,   \* calls of free(password)
  limit, buf, r,   \* randInt's argument, its word, its return value
  stdout, stderr

flags == <<enableLower, enableUpper, enableNumber, enableSymbol>>
alphabet == <<passCharsLen, passChars, passCharsState, pastEnd, written>>
pwbuf == <<password, passwordState, passwordFrees>>
rand == <<limit, buf, r>>
inputs == <<argv, source>>
vars == <<inputs, srcPos, pc, status, i, flags, passLen, errno, alphabet,
          pwbuf, rand, stdout, stderr>>

\* what the two specifications share of the initial state
InitLocals ==
  /\ srcPos = 1
  /\ status = "running"
  /\ i = 1
  /\ enableLower = TRUE /\ enableUpper = TRUE /\ enableNumber = TRUE
  /\ enableSymbol = FALSE
  /\ passLen = PASS_LEN_DEFAULT
  /\ errno = "0"
  /\ passCharsLen = 0 /\ passChars = <<>> /\ passCharsState = "none"
  /\ pastEnd = NUL /\ written = {}
  /\ password = <<>> /\ passwordState = "none" /\ passwordFrees = 0
  /\ buf = 0 /\ r = 0
  /\ stdout = <<>> /\ stderr = <<>>

Init ==
  /\ argv \in Argvs
  /\ source \in Scripts
  /\ pc = "args"
  /\ limit = 0
  /\ InitLocals

\* ------------------------------------------------- main: the arguments

Usage == <<"usage">>
Unrecognized(option) == <<"Unrecognized option: ", option>>
Perror(e) == <<"Failed to get random", e>>

\* case OPTION_x_ENABLE / OPTION_x_DISABLE
SetClass(l, u, n, s) ==
  /\ enableLower' = l /\ enableUpper' = u
  /\ enableNumber' = n /\ enableSymbol' = s
  /\ i' = i + 1
  /\ UNCHANGED <<pc, passLen, errno, stderr>>

\* the usage text printed and the scan carried on (break for goto exit)
OptionHelpContinues ==
  /\ stderr' = Append(stderr, Usage)
  /\ i' = i + 1
  /\ UNCHANGED <<pc, flags, passLen, errno>>

\* case OPTION_HELP: printHelp(); goto exit
OptionHelp ==
  /\ stderr' = Append(stderr, Usage)
  /\ pc' = "exit"
  /\ UNCHANGED <<i, flags, passLen, errno>>

\* badOpt: the three writes to stderr
BadOpt(option, len, err) ==
  /\ stderr' = Append(stderr, Unrecognized(option))
  /\ passLen' = len
  /\ errno' = err
  /\ i' = i + 1
  /\ UNCHANGED <<pc, flags>>

\* What strtol leaves in errno: ERANGE for a value out of range; for a
\* string without digits EINVAL or nothing, as the C library chooses.
StrtolErrno(res, einval) ==
  IF res.erange THEN "ERANGE"
  ELSE IF ~res.conv /\ einval THEN "EINVAL"
  ELSE "0"

\* case OPTION_UNRECOGNIZED
OptionUnrecognized(option) ==
  IF i = Len(argv)
    THEN \E einval \in BOOLEAN :
           LET res == strtol(option)
               err == StrtolErrno(res, einval)
           IN  IF err # "0"
                 THEN BadOpt(option, PASS_LEN_DEFAULT, err)
                 ELSE /\ passLen' = ToSizeT(res.val)
                      /\ errno' = "0"
                      /\ i' = i + 1
                      /\ UNCHANGED <<pc, flags, stderr>>
    ELSE BadOpt(option, passLen, errno)

\* one iteration of the loop over argv
HandleArg ==
  /\ pc = "args"
  /\ i <= Len(argv)
  /\ LET option == argv[i]
         opt == parseOption(option)
     IN  IF opt = "OPTION_LOWER_ENABLE"
           THEN SetClass(TRUE, enableUpper, enableNumber, enableSymbol)
         ELSE IF opt = "OPTION_LOWER_DISABLE"
           THEN SetClass(FALSE, enableUpper, enableNumber, enableSymbol)
         ELSE IF opt = "OPTION_UPPER_ENABLE"
           THEN SetClass(enableLower, TRUE, enableNumber, enableSymbol)
         ELSE IF opt = "OPTION_UPPER_DISABLE"
           THEN SetClass(enableLower, FALSE, enableNumber, enableSymbol)
         ELSE IF opt = "OPTION_NUMBER_ENABLE"
           THEN SetClass(enableLower, enableUpper, TRUE, enableSymbol)
         ELSE IF opt = "OPTION_NUMBER_DISABLE"
           THEN SetClass(enableLower, enableUpper, FALSE, enableSymbol)
         ELSE IF opt = "OPTION_SYMBOL_ENABLE"
           THEN SetClass(enableLower, enableUpper, enableNumber, TRUE)
         ELSE IF opt = "OPTION_SYMBOL_DISABLE"
           THEN SetClass(enableLower, enableUpper, enableNumber, FALSE)
         ELSE IF opt = "OPTION_HELP"
           THEN OptionHelp
         ELSE OptionUnrecognized(option)
  /\ UNCHANGED <<inputs, srcPos, status, alphabet, pwbuf, rand, stdout>>

\* the loop over argv ends
ArgsDone ==
  /\ pc = "args"
  /\ i > Len(argv)
  /\ pc' = "build"
  /\ UNCHANGED <<inputs, srcPos, status, i, flags, passLen, errno, alphabet,
                 pwbuf, rand, stdout, stderr>>

\* a jump to position p; a run that is killed never returns from main
Goto(p) ==
  /\ pc' = p
  /\ status' = IF p = "crashed" THEN "killed" ELSE status

\* ------------------------------------------------- main: the alphabet

\* the bytes strcpy(start, src) writes: the characters and the terminator
StrcpyWrites(start, src) == { start + k : k \in 0..Len(src) }

\* memory after strcpy(start, src), as a function of the offset from passChars
Strcpy(mem, start, src) ==
  [ k \in DOMAIN mem |->
      IF start <= k /\ k < start + Len(src) THEN src[k - start + 1]
      ELSE IF k = start + Len(src) THEN NUL
      ELSE mem[k] ]

\* size_t passCharsLen = 0; if (enableX) passCharsLen += X_LEN; ...
AlphabetLen(l, u, n, s) ==
  (IF l THEN LOWERS_LEN ELSE 0) + (IF u THEN UPPERS_LEN ELSE 0)
    + (IF n THEN NUMBERS_LEN ELSE 0) + (IF s THEN SYMBOLS_LEN ELSE 0)

\* What a store outside an allocated block can do: land in memory the
\* program never looks at, or end the run (a checked strcpy, a guarded
\* allocator, an unmapped page). Past the heap only the second is left.
StrayWriteOutcomes(offset) ==
  IF offset < HeapMax THEN {"continue", "crash"} ELSE {"crash"}

\* passCharsLen, calloc(passCharsLen, 1) and the four strcpy calls
BuildAlphabet ==
  /\ pc = "build"
  /\ LET len == AlphabetLen(enableLower, enableUpper, enableNumber, enableSymbol)
         s0 == 0
         s1 == IF enableLower THEN s0 + LOWERS_LEN ELSE s0
         s2 == IF enableUpper THEN s1 + UPPERS_LEN ELSE s1
         s3 == IF enableNumber THEN s2 + NUMBERS_LEN ELSE s2
         m0 == [ k \in 0..len |-> NUL ]
         m1 == IF enableLower THEN Strcpy(m0, s0, LOWERS) ELSE m0
         m2 == IF enableUpper THEN Strcpy(m1, s1, UPPERS) ELSE m1
         m3 == IF enableNumber THEN Strcpy(m2, s2, NUMBERS) ELSE m2
         m4 == IF enableSymbol THEN Strcpy(m3, s3, SYMBOLS) ELSE m3
         w  == (IF enableLower THEN StrcpyWrites(s0, LOWERS) ELSE {})
                 \cup (IF enableUpper THEN StrcpyWrites(s1, UPPERS) ELSE {})
                 \cup (IF enableNumber THEN StrcpyWrites(s2, NUMBERS) ELSE {})
                 \cup (IF enableSymbol THEN StrcpyWrites(s3, SYMBOLS) ELSE {})
         stray == { k \in w : k >= len }
     IN  /\ passCharsLen' = len
         /\ passCharsState' = "allocated"
         /\ passChars' = [ k \in 1..len |-> m4[k - 1] ]
         /\ written' = w
         /\ IF stray = {}
              THEN /\ pastEnd' \in {NUL, "?"}
                   /\ Goto("alloc")
              ELSE /\ pastEnd' = m4[len]
                   /\ \E o \in StrayWriteOutcomes(len) :
                        Goto(IF o = "crash" THEN "crashed" ELSE "alloc")
  /\ UNCHANGED <<inputs, srcPos, i, flags, passLen, errno, pwbuf, rand,
                 stdout, stderr>>

\* -------------------------------------------- main: the password buffer

\* char *password = calloc(passLen+1, 1); password[passLen] = '\0';
AllocPassword ==
  /\ pc = "alloc"
  /\ LET n == (passLen + 1) % WORD
     IN  IF n > HeapMax
           \* calloc returns NULL and the store goes through it
           THEN /\ Goto("crashed")
                /\ UNCHANGED <<password, passwordState>>
         ELSE IF n = 0
           \* a block of no bytes; the store lands outside it
           THEN /\ password' = <<>>
                /\ passwordState' = "allocated"
                /\ \E o \in StrayWriteOutcomes(0) :
                     Goto(IF o = "crash" THEN "crashed" ELSE "loop")
         ELSE /\ password' = [ k \in 1..n |-> NUL ]
              /\ passwordState' = "allocated"
              /\ Goto("loop")
  /\ i' = 0
  /\ UNCHANGED <<inputs, srcPos, flags, passLen, errno, alphabet,
                 passwordFrees, rand, stdout, stderr>>

\* for (size_t i = 0; i < passLen; ++i) { errno = 0; randInt(passCharsLen)
LoopHead ==
  /\ pc = "loop"
  /\ IF i < passLen
       THEN /\ errno' = "0"
            /\ limit' = passCharsLen
            /\ pc' = "draw"
       ELSE /\ pc' = "puts"
            /\ UNCHANGED <<errno, limit>>
  /\ UNCHANGED <<inputs, srcPos, status, i, flags, passLen, alphabet, pwbuf,
                 buf, r, stdout, stderr>>

\* --------------------------------------------------------------- randInt

SourceResults == IF source = <<>> THEN AllResults ELSE { source[srcPos] }
NextPos == IF source = <<>> THEN srcPos ELSE (srcPos % Len(source)) + 1

\* for (errno = 0; getrandom(&buf, sizeof (buf), 0) != sizeof (buf) && !errno; );
\* if (errno) return 0;
\* One call of getrandom. A short read leaves buf partly filled; buf is not
\* read again before the next call overwrites it, so it is left as it was.
GetRandom ==
  /\ pc = "draw"
  /\ \E res \in SourceResults :
       LET e == IF res.kind = "fail" THEN res.err ELSE errno
           again == res.kind # "full" /\ e = "0"
       IN  /\ errno' = e
           /\ IF again
                THEN UNCHANGED <<buf, r, pc>>
              ELSE IF e # "0"
                THEN /\ r' = 0
                     /\ pc' = "ret"
                     /\ UNCHANGED buf
              ELSE /\ buf' = res.word
                   /\ pc' = "check"
                   /\ UNCHANGED r
  /\ srcPos' = NextPos
  /\ UNCHANGED <<inputs, status, i, flags, passLen, alphabet, pwbuf, limit,
                 stdout, stderr>>

\* MAX / limit * limit
Threshold(lim) == (MAX \div lim) * lim
\* if (buf > MAX / limit * limit) goto restart;
Rejects(b, lim) == b > Threshold(lim)
\* the reduction taken one too wide, so that limit itself can be returned
RandResultOffByOne(b, lim) == b % (lim + 1)

\* return buf % limit;
RandResult(b, lim) == b % lim

\* The division by a limit of 0: the instruction traps and the run is
\* killed, or it yields a quotient whose product with 0 is 0 and a
\* remainder equal to the dividend.
DivideByZeroOutcomes == {"trap", "notrap"}

\* the rejection test and the return
RandCheck ==
  /\ pc = "check"
  /\ IF limit = 0
       THEN \E o \in DivideByZeroOutcomes :
              IF o = "trap"
                THEN Goto("crashed") /\ UNCHANGED <<errno, r>>
              ELSE IF buf > 0
                THEN Goto("draw") /\ errno' = "0" /\ UNCHANGED r
              ELSE Goto("ret") /\ r' = buf /\ UNCHANGED errno
     ELSE IF Rejects(buf, limit)
       THEN Goto("draw") /\ errno' = "0" /\ UNCHANGED r
     ELSE Goto("ret") /\ r' = RandResult(buf, limit) /\ UNCHANGED errno
  /\ UNCHANGED <<inputs, srcPos, i, flags, passLen, alphabet, pwbuf, limit,
                 buf, stdout, stderr>>

\* ---------------------------------------------- main: the loop's body

\* passChars[k]; past the buffer, the byte that follows it
ReadPassChars(k) == IF k < passCharsLen THEN passChars[k + 1] ELSE pastEnd

\* errno not looked at: the 0 returned on failure used as an index
RandFailedUnchecked ==
  /\ pc = "ret"
  /\ errno # "0"
  /\ password' = [password EXCEPT ![i + 1] = ReadPassChars(r)]
  /\ i' = i + 1
  /\ pc' = "loop"
  /\ UNCHANGED <<inputs, srcPos, status, flags, passLen, errno, alphabet,
                 passwordState, passwordFrees, rand, stdout, stderr>>

\* if (errno) { perror("Failed to get random"); goto cleanup; }
RandFailed ==
  /\ pc = "ret"
  /\ errno # "0"
  /\ stderr' = Append(stderr, Perror(errno))
  /\ pc' = "cleanup"
  /\ UNCHANGED <<inputs, srcPos, status, i, flags, passLen, errno, alphabet,
                 pwbuf, rand, stdout>>

\* password[i] = passChars[r];
StoreChar ==
  /\ pc = "ret"
  /\ errno = "0"
  /\ LET strayRead == r >= passCharsLen
         strayWrite == i >= Len(password)
         outcomes == IF strayWrite THEN StrayWriteOutcomes(i)
                     ELSE IF strayRead THEN {"continue", "crash"}
                     ELSE {"continue"}
     IN  \E o \in outcomes :
           IF o = "crash"
             THEN Goto("crashed") /\ UNCHANGED <<password, i>>
             ELSE /\ password' = IF strayWrite THEN password
                                 ELSE [password EXCEPT ![i + 1] = ReadPassChars(r)]
                  /\ i' = i + 1
                  /\ Goto("loop")
  /\ UNCHANGED <<inputs, srcPos, flags, passLen, errno, alphabet,
                 passwordState, passwordFrees, rand, stdout, stderr>>

\* the characters of a C string held in mem: those before the first NUL
RECURSIVE CString(_)
CString(mem) ==
  IF mem = <<>> \/ Head(mem) = NUL THEN <<>>
  ELSE <<Head(mem)>> \o CString(Tail(mem))

\* puts(password);
Puts ==
  /\ pc = "puts"
  /\ stdout' = stdout \o CString(password) \o <<"\n">>
  /\ pc' = "cleanup"
  /\ UNCHANGED <<inputs, srcPos, status, i, flags, passLen, errno, alphabet,
                 pwbuf, rand, stderr>>

\* ------------------------------------------------- main: the clean-up

\* memset(password, 0, passLen);
Memset ==
  /\ pc = "cleanup"
  /\ IF passLen <= Len(password)
       THEN /\ password' = [ k \in 1..Len(password) |->
                               IF k <= passLen THEN NUL ELSE password[k] ]
            /\ Goto("free_password")
       ELSE /\ Goto("crashed")
            /\ UNCHANGED password
  /\ UNCHANGED <<inputs, srcPos, i, flags, passLen, errno, alphabet,
                 passwordState, passwordFrees, rand, stdout, stderr>>

\* free(password);
FreePassword ==
  /\ pc = "free_password"
  /\ passwordState' = "freed"
  /\ passwordFrees' = passwordFrees + 1
  /\ pc' = "free_passChars"
  /\ UNCHANGED <<inputs, srcPos, status, i, flags, passLen, errno, alphabet,
                 password, rand, stdout, stderr>>

\* free(passChars);
FreePassChars ==
  /\ pc = "free_passChars"
  /\ passCharsState' = "freed"
  /\ pc' = "exit"
  /\ UNCHANGED <<inputs, srcPos, status, i, flags, passLen, errno,
                 passCharsLen, passChars, pastEnd, written, pwbuf, rand,
                 stdout, stderr>>

\* exit: return 0;
Exit ==
  /\ pc = "exit"
  /\ pc' = "done"
  /\ status' = "exit 0"
  /\ UNCHANGED <<inputs, srcPos, i, flags, passLen, errno, alphabet, pwbuf,
                 rand, stdout, stderr>>

\* ------------------------------------------------------- specifications

Next ==
  \/ HandleArg
  \/ ArgsDone
  \/ BuildAlphabet
  \/ AllocPassword
  \/ LoopHead
  \/ GetRandom
  \/ RandCheck
  \/ RandFailed
  \/ StoreChar
  \/ Puts
  \/ Memset
  \/ FreePassword
  \/ FreePassChars
  \/ Exit

\* a run of the program on a command line, against a scripted source
Spec == Init /\ [][Next]_vars

\* randInt on its own: any limit up to MaxLimit, any result of every draw
InitRand ==
  /\ argv = <<>>
  /\ source = <<>>
  /\ pc = "draw"
  /\ limit \in 0..MaxLimit
  /\ InitLocals

NextRand ==
  \/ GetRandom
  \/ RandCheck

SpecRand == InitRand /\ [][NextRand]_vars

\* ---------------------------------------------------------------- claims

\* the words randInt accepts and maps to res
Preimages(lim, res) ==
  { b \in 0..MAX : ~Rejects(b, lim) /\ RandResult(b, lim) = res }

\* a decimal integer: optional white space and sign, then one digit or more
\* and nothing after them
IsInteger(s) ==
  LET k0 == SkipSpace(s, 0)
      k1 == IF At(s, k0) \in {"+", "-"} THEN k0 + 1 ELSE k0
  IN  /\ Len(s) > k1
      /\ \A k \in k1..(Len(s) - 1) : IsDigit(At(s, k))

HasHelp == \E k \in 1..Len(argv) : argv[k] = Tok_help
FirstHelp == CHOOSE k \in 1..Len(argv) :
               argv[k] = Tok_help /\ \A j \in 1..(k - 1) : argv[j] # Tok_help

\* main has left the loop over argv without meeting --help
ScanFinished == pc # "args" /\ ~HasHelp
RunOver == pc \in {"done", "crashed"}
AnyClassEnabled == enableLower \/ enableUpper \/ enableNumber \/ enableSymbol
EnabledChars ==
  (IF enableLower THEN Range(LOWERS) ELSE {})
    \cup (IF enableUpper THEN Range(UPPERS) ELSE {})
    \cup (IF enableNumber THEN Range(NUMBERS) ELSE {})
    \cup (IF enableSymbol THEN Range(SYMBOLS) ELSE {})
\* a draw of the run has failed (strtol sets neither of these errors)
EntropyFailed == errno \in GetrandomErrors
\* calloc has returned the passLen+1 bytes of the password buffer
PasswordAllocated == passwordState # "none" /\ Len(password) = passLen + 1

\* C1: whenever randInt(limit) with limit > 0 returns without an entropy
\* error, whatever the source delivered (short reads, rejected and accepted
\* words), the value returned satisfies 0 <= r < limit.
C1_ResultInRange ==
  (pc = "ret" /\ errno = "0" /\ limit > 0) => (0 <= r /\ r < limit)

\* a return of the largest residue, reduced from a word above the limit
C1_Witness ==
  /\ pc = "ret" /\ errno = "0"
  /\ limit = MaxLimit /\ r = limit - 1 /\ buf > limit

\* C2: randInt(limit) is exactly uniform: every residue in [0, limit) has
\* the same number of accepted words 0..MAX mapped to it.
C2_Uniform ==
  (pc = "ret" /\ errno = "0" /\ limit > 0) =>
    \A a, b \in 0..(limit - 1) :
      Cardinality(Preimages(limit, a)) = Cardinality(Preimages(limit, b))

\* C3: a transient failure of a draw (EINTR) is retried inside randInt;
\* randInt reports failure to its caller only for a hard error.
C3_TransientRetried ==
  (pc = "ret" /\ errno # "0" /\ limit > 0) => errno \in HardErrors

\* C4: once a randInt call of the assembly loop has ended with an entropy
\* failure, at whatever position, nothing is or gets written to standard
\* output, no further draw is made, the position keeps no character (the 0
\* returned is not used as an index), and the error is reported on standard
\* error as soon as main has looked at errno.
C4_AbortOnEntropyFailure ==
  EntropyFailed =>
    /\ stdout = <<>>
    /\ pc \in {"ret", "cleanup", "free_password", "free_passChars", "exit",
               "done", "crashed"}
    /\ pc # "ret" => Perror(errno) \in Range(stderr)
    /\ i < Len(password) => password[i + 1] = NUL

\* a failure after two positions were filled, reported, and the run over
C4_Witness ==
  /\ EntropyFailed /\ pc = "done" /\ i = 2
  /\ stderr = << Perror("EINTR") >>

\* C5: with all four classes disabled the run is rejected before sampling:
\* randInt is not called with limit 0, no division by zero is reached, the
\* run is not killed and writes nothing to standard output.
C5_EmptyAlphabetRejected ==
  (passCharsState # "none" /\ passCharsLen = 0) =>
    /\ pc \notin {"draw", "check", "ret", "puts", "crashed"}
    /\ stdout = <<>>

\* C6: a run with at least one class enabled, a requested length L >= 0 and
\* no failed draw ends with exactly L characters and a newline on standard
\* output, each character one of an enabled class.
C6_Output ==
  (RunOver /\ ScanFinished /\ AnyClassEnabled /\ passLen <= LONG_MAX
     /\ ~EntropyFailed) =>
    /\ Len(stdout) = passLen + 1
    /\ stdout[passLen + 1] = "\n"
    /\ \A k \in 1..passLen : stdout[k] \in EnabledChars

\* C7: a final argument that is no recognized option and no integer leaves
\* the length at the default 22 and is reported as an unrecognized option.
C7_InvalidLength ==
  (ScanFinished /\ argv # <<>>
     /\ parseOption(argv[Len(argv)]) = "OPTION_UNRECOGNIZED"
     /\ ~IsInteger(argv[Len(argv)])) =>
    /\ passLen = PASS_LEN_DEFAULT
    /\ Unrecognized(argv[Len(argv)]) \in Range(stderr)

\* C8: when the scan meets --help, the usage text is written to standard
\* error and the run ends at once with exit status 0: no later argument is
\* processed, no entropy is drawn, nothing is written to standard output.
C8_HelpExits ==
  HasHelp =>
    /\ pc \in {"args", "exit", "done"}
    /\ i <= FirstHelp
    /\ Len(stderr) <= FirstHelp
    /\ stdout = <<>>
    /\ srcPos = 1 /\ passCharsState = "none" /\ passwordState = "none"
    /\ pc \in {"exit", "done"} =>
         /\ i = FirstHelp
         /\ stderr # <<>> /\ stderr[Len(stderr)] = Usage
    /\ pc = "done" => status = "exit 0"

\* --help met with an argument still to come, and the run over
C8_Witness ==
  /\ Len(argv) = 2 /\ argv[1] = Tok_help /\ argv[2] = Tok_abc
  /\ pc = "done"
  /\ stderr = << Usage >>

\* C9: on every path on which the password buffer was allocated, the run
\* ends with the buffer released exactly once, its passLen password bytes
\* zero when it was released.
C9_ZeroedAndReleased ==
  (RunOver /\ PasswordAllocated) =>
    /\ passwordState = "freed"
    /\ passwordFrees = 1
    /\ \A k \in 1..passLen : password[k] = NUL

\* C10: every byte the strcpy calls write into the alphabet buffer, the
\* terminating NUL included, lands at an offset in [0, passCharsLen).
C10_WritesInBounds ==
  \A k \in written : 0 <= k /\ k < passCharsLen

=============================================================================
